---- MODULE Spec2Model ----
(***************************************************************************)
(* Model of nbhr/geodome: TriangleMesh (save_as_ply, force_ccw),           *)
(* GeodesicDome (__init__, tessellate) from geodome.py and                 *)
(* fibonacci_sphere from fibonacci.py.                                     *)
(*                                                                         *)
(* A mesh is the pair (v, f).  v is the vertex array: v[i + 1] is the row  *)
(* the code calls v[i].  f is the face array: a sequence of triples of     *)
(* 0-based vertex indices.  Coordinates are fixed-point numbers: the       *)
(* integer x stands for the float x / Scale.  Sums, differences and        *)
(* products of such values are exact, as they are in float64 for           *)
(* integer-valued inputs of this size; a square root or a quotient is      *)
(* rounded to the grid.  Coordinates too large for the grid, where         *)
(* float64 does round differences, products and sums, are held in the      *)
(* vertex array w in the form described with Round below.                  *)
(***************************************************************************)
EXTENDS Integers, Sequences, FiniteSets, TLC

VARIABLES v, f, dome, raised, level, edgeSum, call, pre, ply, samples, pts, w

vars == <<v, f, dome, raised, level, edgeSum, call, pre, ply, samples, pts, w>>

meshVars == <<v, f, dome, raised, level, edgeSum, call, pre, ply>>

\* Fixed-point unit: the integer Scale stands for the float 1.0.
Scale == 256

\* Largest number of tessellate iterations applied to one mesh.
MaxLevel == 2

\* Largest iteration count passed to one tessellate call.
MaxIter == 2

\* Largest number of faces of a caller-supplied mesh.
MaxInitFaces == 2

\* Largest sample count passed to fibonacci_sphere.
MaxSamples == 60

Abs(x) == IF x < 0 THEN -x ELSE x

Sgn(x) == IF x < 0 THEN -1 ELSE IF x > 0 THEN 1 ELSE 0

\* floor(sqrt(n)) by bisection on [lo, hi], lo * lo <= n < (hi + 1)^2.
RECURSIVE SqrtBetween(_, _, _)
SqrtBetween(n, lo, hi) ==
    IF lo >= hi THEN lo
    ELSE LET mid == (lo + hi + 1) \div 2
         IN  IF mid * mid <= n THEN SqrtBetween(n, mid, hi)
             ELSE SqrtBetween(n, lo, mid - 1)

\* np.sqrt / np.linalg.norm on a fixed-point square: floor(sqrt(n)), n < 2^30.
ISqrt(n) == SqrtBetween(n, 0, 32767)

(***************************************************************************)
(* Vector arithmetic of numpy on rows of three components.                 *)
(***************************************************************************)
VSub(a, b) == <<a[1] - b[1], a[2] - b[2], a[3] - b[3]>>

VAdd(a, b) == <<a[1] + b[1], a[2] + b[2], a[3] + b[3]>>

\* np.cross
Cross(a, b) == <<a[2] * b[3] - a[3] * b[2],
                 a[3] * b[1] - a[1] * b[3],
                 a[1] * b[2] - a[2] * b[1]>>

\* np.einsum('ij,ij->i', ...) on one row
Dot(a, b) == a[1] * b[1] + a[2] * b[2] + a[3] * b[3]

\* The row of vertex index i (0-based) in the vertex array vv.
Row(vv, i) == vv[i + 1]

(***************************************************************************)
(* GeodesicDome.__init__: the icosahedron.  The vertex table is the        *)
(* Cartesian result of the cylindrical construction, scaled so that the    *)
(* pole has z = 1, in units of 1 / 256 (values below tol are 0 there).      *)
(***************************************************************************)
Ico256 == << <<0, 0, 256>>,
           <<229, 0, 114>>,
           <<71, 218, 114>>,
           <<-185, 135, 114>>,
           <<-185, -135, 114>>,
           <<71, -218, 114>>,
           <<185, 135, -114>>,
           <<-71, 218, -114>>,
           <<-229, 0, -114>>,
           <<-71, -218, -114>>,
           <<185, -135, -114>>,
           <<0, 0, -256>> >>

\* The table on the grid of the model: a coordinate c / 256 as the nearest
\* multiple of 1 / Scale towards zero.
ToGrid(c) == Sgn(c) * ((Abs(c) * Scale) \div 256)

IcoV == [i \in 1..12 |-> <<ToGrid(Ico256[i][1]), ToGrid(Ico256[i][2]), ToGrid(Ico256[i][3])>>]

\* Mutant of IcoF: the last face closes on vertex 7 instead of vertex 6.
IcoF_WrongLastFace ==
    << <<2, 0, 1>>, <<3, 0, 2>>, <<4, 0, 3>>, <<5, 0, 4>>, <<1, 0, 5>>,
       <<2, 1, 6>>, <<7, 2, 6>>, <<3, 2, 7>>, <<8, 3, 7>>, <<4, 3, 8>>,
       <<9, 4, 8>>, <<5, 4, 9>>, <<10, 5, 9>>, <<6, 1, 10>>, <<1, 5, 10>>,
       <<6, 11, 7>>, <<7, 11, 8>>, <<8, 11, 9>>, <<9, 11, 10>>, <<10, 11, 7>> >>

IcoF == << <<2, 0, 1>>,
           <<3, 0, 2>>,
           <<4, 0, 3>>,
           <<5, 0, 4>>,
           <<1, 0, 5>>,
           <<2, 1, 6>>,
           <<7, 2, 6>>,
           <<3, 2, 7>>,
           <<8, 3, 7>>,
           <<4, 3, 8>>,
           <<9, 4, 8>>,
           <<5, 4, 9>>,
           <<10, 5, 9>>,
           <<6, 1, 10>>,
           <<1, 5, 10>>,
           <<6, 11, 7>>,
           <<7, 11, 8>>,
           <<8, 11, 9>>,
           <<9, 11, 10>>,
           <<10, 11, 6>> >>

\* self.tol = 1e-15 in fixed-point units: the smallest magnitude on the grid
\* that is not below tol (1 / Scale > 1e-15, so only 0 itself is below it).
TolUnits == 1

\* Mutant of Snap: every component below one half is set to zero.
Snap_BelowHalf(vv) ==
    [i \in DOMAIN vv |->
        <<IF 2 * Abs(vv[i][1]) < Scale THEN 0 ELSE vv[i][1],
          IF 2 * Abs(vv[i][2]) < Scale THEN 0 ELSE vv[i][2],
          IF 2 * Abs(vv[i][3]) < Scale THEN 0 ELSE vv[i][3]>>]

\* self.v[np.abs(self.v) < self.tol] = 0
Snap(vv) ==
    [i \in DOMAIN vv |->
        <<IF Abs(vv[i][1]) < TolUnits THEN 0 ELSE vv[i][1],
          IF Abs(vv[i][2]) < TolUnits THEN 0 ELSE vv[i][2],
          IF Abs(vv[i][3]) < TolUnits THEN 0 ELSE vv[i][3]>>]

(***************************************************************************)
(* GeodesicDome.tessellate                                                 *)
(***************************************************************************)
\* newvert: (v0 + v1) / |v0 + v1|.  The norm is taken on a grid four times
\* finer than the coordinates; the quotient is truncated towards zero.
newvert(v0, v1) ==
    LET s  == VAdd(v0, v1)
        n4 == ISqrt(16 * Dot(s, s))
    IN  <<Sgn(s[1]) * ((Abs(s[1]) * Scale * 4) \div n4),
          Sgn(s[2]) * ((Abs(s[2]) * Scale * 4) \div n4),
          Sgn(s[3]) * ((Abs(s[3]) * Scale * 4) \div n4)>>

\* The p-th step (p = 0, 1, ...) of the nested loops of lines 131-132:
\* face number p \div 3, pair (i, j) number p % 3 of zip([0,1,2],[1,2,0]).
SlotI(ff, p) == ff[(p \div 3) + 1][(p % 3) + 1]

SlotJ(ff, p) == ff[(p \div 3) + 1][((p + 1) % 3) + 1]

\* Mutant of IsUp: every traversal of an edge inserts a vertex.
IsUp_EveryTraversal(ff, p) == SlotI(ff, p) # SlotJ(ff, p)

\* if tri[i] < tri[j]
IsUp(ff, p) == SlotI(ff, p) < SlotJ(ff, p)

\* The steps lo..hi that pass the test of line 133, in loop order.
RECURSIVE UpSlots(_, _, _)
UpSlots(ff, lo, hi) ==
    IF lo > hi THEN << >>
    ELSE IF lo = hi THEN (IF IsUp(ff, lo) THEN <<lo>> ELSE << >>)
    ELSE LET mid == (lo + hi) \div 2
         IN  UpSlots(ff, lo, mid) \o UpSlots(ff, mid + 1, hi)

\* vid = len(v) before the loop, vid += 1 after every insertion: the k-th
\* insertion (k = 1, 2, ...) gets this index.
VidOf(vv, k) == Len(vv) + (k - 1)

\* Mutant of EdgeDict: only the key (tri[i], tri[j]) is set.
RECURSIVE EdgeDict_OneOrder(_, _, _, _, _)
EdgeDict_OneOrder(vv, ff, ups, lo, hi) ==
    IF lo > hi THEN << >>
    ELSE IF lo = hi
    THEN <<SlotI(ff, ups[lo]), SlotJ(ff, ups[lo])>> :> VidOf(vv, lo)
    ELSE LET mid == (lo + hi) \div 2
         IN  EdgeDict_OneOrder(vv, ff, ups, mid + 1, hi) @@ EdgeDict_OneOrder(vv, ff, ups, lo, mid)

\* The dictionary vv2v after insertions lo..hi of ups: both orders of the pair
\* are set, and a later insertion overwrites an earlier one with the same key.
RECURSIVE EdgeDict(_, _, _, _, _)
EdgeDict(vv, ff, ups, lo, hi) ==
    IF lo > hi THEN << >>
    ELSE IF lo = hi
    THEN LET i == SlotI(ff, ups[lo])
             j == SlotJ(ff, ups[lo])
         IN  (<<i, j>> :> VidOf(vv, lo)) @@ (<<j, i>> :> VidOf(vv, lo))
    ELSE LET mid == (lo + hi) \div 2
         IN  EdgeDict(vv, ff, ups, mid + 1, hi) @@ EdgeDict(vv, ff, ups, lo, mid)

\* Mutant of SubFaces: the central face is wound the other way.
SubFaces_CentreReversed(vv2v, tri) ==
    << <<tri[1], vv2v[<<tri[1], tri[2]>>], vv2v[<<tri[3], tri[1]>>]>>,
       <<tri[2], vv2v[<<tri[2], tri[3]>>], vv2v[<<tri[1], tri[2]>>]>>,
       <<tri[3], vv2v[<<tri[3], tri[1]>>], vv2v[<<tri[2], tri[3]>>]>>,
       <<vv2v[<<tri[1], tri[2]>>], vv2v[<<tri[3], tri[1]>>], vv2v[<<tri[2], tri[3]>>]>> >>

\* The four faces appended for tri in the second loop (lines 141-144).
SubFaces(vv2v, tri) ==
    << <<tri[1], vv2v[<<tri[1], tri[2]>>], vv2v[<<tri[3], tri[1]>>]>>,
       <<tri[2], vv2v[<<tri[2], tri[3]>>], vv2v[<<tri[1], tri[2]>>]>>,
       <<tri[3], vv2v[<<tri[3], tri[1]>>], vv2v[<<tri[2], tri[3]>>]>>,
       <<vv2v[<<tri[1], tri[2]>>], vv2v[<<tri[2], tri[3]>>], vv2v[<<tri[3], tri[1]>>]>> >>

\* The keys the second loop looks up for tri.
Lookups(tri) == {<<tri[1], tri[2]>>, <<tri[2], tri[3]>>, <<tri[3], tri[1]>>}

\* np.array(list): the rows as one array, every row computed once.
AsArray(rows) == << >> \o rows

\* One pass of the loop body of lines 126-147 on the mesh m = [v, f, raised].
\* np.vstack raises ValueError when no vertex was inserted (np.array([]) has
\* no columns); a missing key in the second loop raises KeyError.  self.v and
\* self.f are assigned only at the end of a pass that raised nothing.
TessOnce(m) ==
    LET ups  == UpSlots(m.f, 0, 3 * Len(m.f) - 1)
        v2   == AsArray([k \in 1..Len(ups) |->
                    newvert(Row(m.v, SlotI(m.f, ups[k])), Row(m.v, SlotJ(m.f, ups[k])))])
        vv2v == EdgeDict(m.v, m.f, ups, 1, Len(ups))
        keys == IF Len(ups) = 0 THEN {} ELSE DOMAIN vv2v
        f2   == AsArray([t \in 1..Len(m.f) |-> SubFaces(vv2v, m.f[t])])
    IN  IF Len(ups) = 0
        THEN [m EXCEPT !.raised = "ValueError"]
        ELSE IF \E t \in DOMAIN m.f : ~(Lookups(m.f[t]) \subseteq keys)
        THEN [m EXCEPT !.raised = "KeyError"]
        ELSE [v |-> m.v \o v2,
              f |-> AsArray([q \in 1..(4 * Len(m.f)) |->
                        f2[((q - 1) \div 4) + 1][((q - 1) % 4) + 1]]),
              raised |-> "none"]

\* The meshes after 0, 1, ... passes of `for _ in range(iter)`, up to and
\* including the first pass that raises.
RECURSIVE Passes(_, _)
Passes(m, k) ==
    IF k = 0 \/ m.raised # "none" THEN <<m>>
    ELSE <<m>> \o Passes(TessOnce(m), k - 1)

\* Number of distinct undirected edges of the face array ff.
NumEdges(ff) ==
    Cardinality({ {SlotI(ff, p), SlotJ(ff, p)} : p \in 0..(3 * Len(ff) - 1) })

(***************************************************************************)
(* TriangleMesh.force_ccw                                                  *)
(***************************************************************************)
\* dir of one face: ((v1 - v0) x (v2 - v0)) . v0
Dir(vv, tri) ==
    LET a == Row(vv, tri[1])
        b == Row(vv, tri[2])
        c == Row(vv, tri[3])
    IN  Dot(Cross(VSub(b, a), VSub(c, a)), a)

\* Line 51: columns 0 and 1 are exchanged in the rows where dir < 0.
ForceCcwFaces(vv, ff) ==
    [t \in DOMAIN ff |->
        IF Dir(vv, ff[t]) < 0 THEN <<ff[t][2], ff[t][1], ff[t][3]>> ELSE ff[t]]

(***************************************************************************)
(* TriangleMesh.force_ccw in float64, for coordinates beyond the grid.     *)
(*                                                                         *)
(* A float64 value is held as the coefficient tuple <<c0, c1, c2, c3>> of  *)
(* its exact value c0 + c1*B + c2*B^2 + c3*B^3, B = 2^BigExp, in the unit  *)
(* 1 / Scale of the grid, with integer coefficients far below B.  float64  *)
(* keeps Mant significant bits: a value whose leading coefficient is c_k,  *)
(* k >= 1, has its unit in the last place inside c_(k-1), so rounding to   *)
(* nearest (ties to even) rounds c_(k-1) to a multiple of a power of two   *)
(* and drops the coefficients below it, which only break ties.  A value    *)
(* with c1 = c2 = c3 = 0 is an integer below 2^Mant and is exact.          *)
(***************************************************************************)
\* Significant bits of a float64.
Mant == 53

\* The large coordinates of caller-supplied meshes are 2^BigExp.
BigExp == 54

\* Position of the leading coefficient.
Lead(p) == IF p[4] # 0 THEN 4 ELSE IF p[3] # 0 THEN 3 ELSE IF p[2] # 0 THEN 2 ELSE 1

\* dir < 0 on a float64
Neg(p) == p[Lead(p)] < 0

RECURSIVE FloorLog2(_)
FloorLog2(a) == IF a < 2 THEN 0 ELSE 1 + FloorLog2(a \div 2)

\* Sign of what lies below the coefficient c_(k-1) that is rounded.
Sticky(p, k) ==
    IF k = 4 /\ p[2] # 0 THEN Sgn(p[2]) ELSE IF k >= 3 THEN Sgn(p[1]) ELSE 0

\* The multiple of q nearest to r + t * epsilon, as a count of q; ties to even.
Nearest(r, t, q) ==
    LET h == r \div q
        rem == r % q
    IN  IF 2 * rem < q \/ (2 * rem = q /\ t < 0) THEN h
        ELSE IF 2 * rem > q \/ t > 0 THEN h + 1
        ELSE IF h % 2 = 0 THEN h ELSE h + 1

\* The value lead * B^(k-1) + below * B^(k-2).
WithLead(k, lead, below) ==
    IF k = 4 THEN <<0, 0, below, lead>>
    ELSE IF k = 3 THEN <<0, below, lead, 0>>
    ELSE <<below, lead, 0, 0>>

\* IEEE 754 round-to-nearest-even of an exact value to Mant significant bits.
\* The binade is that of the leading coefficient, or the one below it when
\* the leading coefficient is a power of two and the rest is negative.
Round(p) ==
    LET k == Lead(p)
    IN  IF k = 1 THEN p
        ELSE LET s == Sgn(p[k])
                 a == Abs(p[k])
                 r == s * p[k - 1]
                 t == s * Sticky(p, k)
                 e == IF (r < 0 \/ (r = 0 /\ t < 0)) /\ 2 ^ FloorLog2(a) = a
                       THEN FloorLog2(a) - 1
                       ELSE FloorLog2(a)
                 q == 2 ^ (BigExp - Mant + 1 + e)
             IN  WithLead(k, p[k], s * q * Nearest(r, t, q))

\* Exact sum, difference and product (coordinates have no coefficient
\* above c1, so no product of lines 46-50 reaches B^4).
PAdd(x, y) == <<x[1] + y[1], x[2] + y[2], x[3] + y[3], x[4] + y[4]>>

PSub(x, y) == <<x[1] - y[1], x[2] - y[2], x[3] - y[3], x[4] - y[4]>>

PMul(x, y) ==
    <<x[1] * y[1],
      x[1] * y[2] + x[2] * y[1],
      x[1] * y[3] + x[2] * y[2] + x[3] * y[1],
      x[1] * y[4] + x[2] * y[3] + x[3] * y[2] + x[4] * y[1]>>

\* The float64 operations +, -, *.
FAdd(x, y) == Round(PAdd(x, y))

FSub(x, y) == Round(PSub(x, y))

FMul(x, y) == Round(PMul(x, y))

\* Lines 47-48: v[:,1] - v[:,0]
WSub(a, b) == <<FSub(a[1], b[1]), FSub(a[2], b[2]), FSub(a[3], b[3])>>

\* np.cross: each component is a product minus a product.
WCross(a, b) ==
    <<FSub(FMul(a[2], b[3]), FMul(a[3], b[2])),
      FSub(FMul(a[3], b[1]), FMul(a[1], b[3])),
      FSub(FMul(a[1], b[2]), FMul(a[2], b[1]))>>

\* np.einsum leaves the order of its three-term sum, and the fusing of a
\* product with the addition that follows it, to the build.
Orders == {"left", "right", "fused"}

\* np.einsum('ij,ij->i', ...) on one row
WDot(n, a, ord) ==
    IF ord = "left"
    THEN FAdd(FAdd(FMul(n[1], a[1]), FMul(n[2], a[2])), FMul(n[3], a[3]))
    ELSE IF ord = "right"
    THEN FAdd(FMul(n[1], a[1]), FAdd(FMul(n[2], a[2]), FMul(n[3], a[3])))
    ELSE Round(PAdd(PMul(n[3], a[3]),
                    Round(PAdd(PMul(n[2], a[2]), FMul(n[1], a[1])))))

\* dir of one face, lines 46-50
DirF(wv, tri, ord) ==
    LET a == Row(wv, tri[1])
        b == Row(wv, tri[2])
        c == Row(wv, tri[3])
    IN  WDot(WCross(WSub(b, a), WSub(c, a)), a, ord)

\* Line 51 on float64 rows.
ForceCcwWide(wv, ff, ord) ==
    [t \in DOMAIN ff |->
        IF Neg(DirF(wv, ff[t], ord)) THEN <<ff[t][2], ff[t][1], ff[t][3]>>
        ELSE ff[t]]

(***************************************************************************)
(* TriangleMesh.save_as_ply: the file as its sequence of lines.  A header  *)
(* line is its text, with the count of an element line kept as a number; a *)
(* vertex line holds the three coordinates, a face line the leading 3 and  *)
(* the three indices.                                                      *)
(***************************************************************************)
\* Mutant of PlyLines: the vertex element line carries the face count.
PlyLines_WrongCount(vv, ff) ==
    << [text |-> "ply"],
       [text |-> "format ascii 1.0"],
       [text |-> "element vertex", n |-> Len(ff)],
       [text |-> "property float x"],
       [text |-> "property float y"],
       [text |-> "property float z"],
       [text |-> "element face", n |-> Len(ff)],
       [text |-> "property list uchar int vertex_indices"],
       [text |-> "end_header"] >>
    \o [i \in DOMAIN vv |-> [x |-> vv[i][1], y |-> vv[i][2], z |-> vv[i][3]]]
    \o [t \in DOMAIN ff |-> [n |-> 3, i |-> ff[t][1], j |-> ff[t][2], k |-> ff[t][3]]]

PlyLines(vv, ff) ==
    << [text |-> "ply"],
       [text |-> "format ascii 1.0"],
       [text |-> "element vertex", n |-> Len(vv)],
       [text |-> "property float x"],
       [text |-> "property float y"],
       [text |-> "property float z"],
       [text |-> "element face", n |-> Len(ff)],
       [text |-> "property list uchar int vertex_indices"],
       [text |-> "end_header"] >>
    \o [i \in DOMAIN vv |-> [x |-> vv[i][1], y |-> vv[i][2], z |-> vv[i][3]]]
    \o [t \in DOMAIN ff |-> [n |-> 3, i |-> ff[t][1], j |-> ff[t][2], k |-> ff[t][3]]]

(***************************************************************************)
(* fibonacci_sphere(samples).  Angles are in units of pi / HalfTurn.  The   *)
(* points of a call with N samples are in units of 1 / (Scale * (N - 1)),  *)
(* in which the heights 1 - 2 i / (N - 1) are exact.                       *)
(***************************************************************************)
\* np.pi
HalfTurn == 1024

\* phi = np.pi * (np.sqrt(5.) - 1.)
GoldenAngle == ISqrt(5 * HalfTurn * HalfTurn) - HalfTurn

\* np.sin on [0, pi], in units of 1 / Scale (Bhaskara's rational form).
SinArc(x) ==
    LET p == x * (HalfTurn - x)
    IN  (16 * p * Scale) \div (5 * HalfTurn * HalfTurn - 4 * p)

\* np.sin
Sin(a) ==
    LET r == a % (2 * HalfTurn)
    IN  IF r <= HalfTurn THEN SinArc(r) ELSE -SinArc(r - HalfTurn)

\* np.cos
Cos(a) == Sin(a + (HalfTurn \div 2))

\* The float 1.0 in the units of the points of fibonacci_sphere(N).
One(N) == Scale * (N - 1)

\* Mutant of FibPoint: the columns are stacked as (x, y, z).
FibPoint_XYZ(N, i) ==
    LET y      == One(N) - (i * Scale) * 2
        radius == ISqrt(One(N) * One(N) - y * y)
        theta  == GoldenAngle * i
        x      == Sgn(Cos(theta)) * ((Abs(Cos(theta)) * radius) \div Scale)
        z      == Sgn(Sin(theta)) * ((Abs(Sin(theta)) * radius) \div Scale)
    IN  <<x, y, z>>

\* Row i of np.stack([z, x, y]).T
FibPoint(N, i) ==
    LET y      == One(N) - (i * Scale) * 2
        radius == ISqrt(One(N) * One(N) - y * y)
        theta  == GoldenAngle * i
        x      == Sgn(Cos(theta)) * ((Abs(Cos(theta)) * radius) \div Scale)
        z      == Sgn(Sin(theta)) * ((Abs(Sin(theta)) * radius) \div Scale)
    IN  <<z, x, y>>

fibonacci_sphere(N) == [k \in 1..N |-> FibPoint(N, k - 1)]

(***************************************************************************)
(* Caller-supplied meshes: a mesh whose v and f were assigned by its       *)
(* builder, as FibonacciSphere.__init__ assigns them, rather than by       *)
(* GeodesicDome.__init__.  The four points lie in one octant, so that no   *)
(* edge joins antipodal points (newvert would divide by a zero norm); the  *)
(* faces are two triangles hinged on the edge {0, 1}, the first in every   *)
(* order of its corners and the second in both windings, in any number of  *)
(* copies up to MaxInitFaces.                                              *)
(***************************************************************************)
Pool == << <<Scale, 0, 0>>, <<0, Scale, 0>>, <<0, 0, Scale>>, <<Scale, Scale, 0>> >>

\* The rows of f: the corners {0, 1, 2} (d # 0) in any order, or the corners
\* {0, 1, 3} (in one plane with the origin, d = 0) wound either way.
Triangles ==
    {t \in (0..2) \X (0..2) \X (0..2) : {t[1], t[2], t[3]} = {0, 1, 2}}
        \cup {<<0, 1, 3>>, <<1, 0, 3>>}

FaceArrays == UNION {[1..n -> Triangles] : n \in 1..MaxInitFaces}

(***************************************************************************)
(* State machine                                                           *)
(***************************************************************************)
Mesh == [v |-> v, f |-> f, raised |-> "none"]

InitMesh ==
    /\ \/ dome = TRUE /\ v = IcoV /\ f = IcoF
       \/ dome = FALSE /\ v = Pool /\ f \in FaceArrays
    /\ raised = "none"
    /\ level = 0
    /\ edgeSum = 0
    /\ call = [op |-> "init", k |-> 0, done |-> 0]
    /\ pre = [v |-> v, f |-> f, pv |-> v, pf |-> f]
    /\ ply = << >>

Init ==
    /\ InitMesh
    /\ samples = 0
    /\ pts = << >>
    /\ w = << >>

\* Sum of the undirected edge counts of the meshes ps[1..n].
RECURSIVE EdgeCounts(_, _)
EdgeCounts(ps, n) ==
    IF n = 0 THEN 0 ELSE NumEdges(ps[n].f) + EdgeCounts(ps, n - 1)

\* g.tessellate(k).  The snap of line 149 runs only when no pass raised.
\* History: level counts the completed passes since construction, edgeSum
\* adds the undirected edge count of the mesh each completed pass started
\* from, pre holds the mesh before the call (v, f) and before the last
\* completed pass (pv, pf).
Tessellate(k) ==
    /\ level + k <= MaxLevel
    /\ \E ps \in {Passes(Mesh, k)} :
         \E done \in {IF ps[Len(ps)].raised = "none" THEN Len(ps) - 1 ELSE Len(ps) - 2} :
            /\ v' = IF ps[Len(ps)].raised = "none" THEN Snap(ps[done + 1].v)
                                                  ELSE ps[done + 1].v
            /\ f' = ps[done + 1].f
            /\ raised' = ps[Len(ps)].raised
            /\ level' = level + done
            /\ edgeSum' = edgeSum + EdgeCounts(ps, done)
            /\ pre' = [v |-> v, f |-> f,
                       pv |-> IF done = 0 THEN v ELSE ps[done].v,
                       pf |-> IF done = 0 THEN f ELSE ps[done].f]
            /\ call' = [op |-> "tessellate", k |-> k, done |-> done]
    /\ UNCHANGED <<dome, ply, samples, pts, w>>

\* m.force_ccw()
ForceCcw ==
    /\ f' = ForceCcwFaces(v, f)
    /\ raised' = "none"
    /\ call' = [op |-> "force_ccw", k |-> 0, done |-> 0]
    /\ pre' = [v |-> v, f |-> f, pv |-> v, pf |-> f]
    /\ UNCHANGED <<v, dome, level, edgeSum, ply, samples, pts, w>>

\* m.save_as_ply(filename)
SaveAsPly ==
    /\ ply' = PlyLines(v, f)
    /\ raised' = "none"
    /\ call' = [op |-> "save_as_ply", k |-> 0, done |-> 0]
    /\ pre' = [v |-> v, f |-> f, pv |-> v, pf |-> f]
    /\ UNCHANGED <<v, f, dome, level, edgeSum, samples, pts, w>>

Next ==
    \/ \E k \in 0..MaxIter : Tessellate(k)
    \/ ForceCcw
    \/ SaveAsPly

Spec == Init /\ [][Next]_vars

\* A call fibonacci_sphere(samples) beside an untouched dome.
InitFib ==
    /\ InitMesh
    /\ dome
    /\ samples \in 2..MaxSamples
    /\ pts = << >>
    /\ w = << >>

FibonacciSphere ==
    /\ pts = << >>
    /\ pts' = fibonacci_sphere(samples)
    /\ UNCHANGED <<meshVars, samples, w>>

NextFib == FibonacciSphere

SpecFib == InitFib /\ [][NextFib]_vars

\* A grid value as a float64.
Lift(x) == <<x, 0, 0, 0>>

\* 2^BigExp
Big == <<0, 1, 0, 0>>

\* The vertex array of a caller-supplied mesh with coordinates of very
\* different sizes: (B, 3, 0), (0, 0, 3), (1, 0, B), in the unit 1 / Scale,
\* followed by the first three rows of Pool.
WidePool ==
    << <<Big, Lift(3), Lift(0)>>,
       <<Lift(0), Lift(0), Lift(3)>>,
       <<Lift(1), Lift(0), Big>>,
       <<Lift(Pool[1][1]), Lift(Pool[1][2]), Lift(Pool[1][3])>>,
       <<Lift(Pool[2][1]), Lift(Pool[2][2]), Lift(Pool[2][3])>>,
       <<Lift(Pool[3][1]), Lift(Pool[3][2]), Lift(Pool[3][3])>> >>

\* One face on three different rows of WidePool, in any order.
WideFaces ==
    {<<t>> : t \in {u \in (0..5) \X (0..5) \X (0..5) :
                       Cardinality({u[1], u[2], u[3]}) = 3}}

\* A mesh (w, f) built by the caller.
InitFloat ==
    /\ dome = FALSE
    /\ v = << >>
    /\ w = WidePool
    /\ f \in WideFaces
    /\ raised = "none"
    /\ level = 0
    /\ edgeSum = 0
    /\ call = [op |-> "init", k |-> 0, done |-> 0]
    /\ pre = [v |-> v, f |-> f, pv |-> v, pf |-> f]
    /\ ply = << >>
    /\ samples = 0
    /\ pts = << >>

\* m.force_ccw() on the mesh (w, f)
ForceCcwFloat ==
    /\ \E ord \in Orders : f' = ForceCcwWide(w, f, ord)
    /\ raised' = "none"
    /\ call' = [op |-> "force_ccw", k |-> 0, done |-> 0]
    /\ pre' = [v |-> v, f |-> f, pv |-> v, pf |-> f]
    /\ UNCHANGED <<v, w, dome, level, edgeSum, ply, samples, pts>>

NextFloat == ForceCcwFloat

SpecFloat == InitFloat /\ [][NextFloat]_vars


(***************************************************************************)
(* Vocabulary of the properties                                            *)
(***************************************************************************)
Slots(ff) == 0..(3 * Len(ff) - 1)

\* The undirected / directed edge a face traverses at step p.
UEdge(ff, p) == {SlotI(ff, p), SlotJ(ff, p)}

DEdge(ff, p) == <<SlotI(ff, p), SlotJ(ff, p)>>

\* The faces (numbered from 0) that have the undirected edge e.
FacesOn(ff, e) == {p \div 3 : p \in {q \in Slots(ff) : UEdge(ff, q) = e}}

EveryEdgeInTwoFaces(ff) ==
    \A p \in Slots(ff) : Cardinality(FacesOn(ff, UEdge(ff, p))) = 2

\* Every directed edge occurs in at most one face, and its reverse occurs too.
ConsistentlyWound(ff) ==
    \A D \in {{DEdge(ff, p) : p \in Slots(ff)}} :
        /\ Cardinality(D) = 3 * Len(ff)
        /\ {<<e[2], e[1]>> : e \in D} = D

InRange(vv, ff) ==
    \A t \in DOMAIN ff : \A c \in 1..3 : ff[t][c] >= 0 /\ ff[t][c] < Len(vv)

\* The index the subdivided face array f2 uses for the midpoint of the edge
\* that the parent face array traverses at step p.
MidOf(f2, p) == f2[4 * (p \div 3) + (p % 3) + 1][2]

\* Faces of the parent array that share an edge name the same midpoint.
SharedMidpoints(ff, f2) ==
    \A M \in {{<<UEdge(ff, p), MidOf(f2, p)>> : p \in Slots(ff)}} :
        Cardinality(M) = Cardinality({m[1] : m \in M})

\* d of a face taken with its corner number c: ((b - a) x (c - a)) . corner
DirAt(vv, tri, c) ==
    Dot(Cross(VSub(Row(vv, tri[2]), Row(vv, tri[1])),
              VSub(Row(vv, tri[3]), Row(vv, tri[1]))),
        Row(vv, tri[c]))

\* The exact value of d = ((b - a) x (c - a)) . a on float64 rows.
PCrossTerm(a1, b2, a2, b1) == PSub(PMul(a1, b2), PMul(a2, b1))

ExactDir(wv, tri) ==
    LET a == Row(wv, tri[1])
        b == Row(wv, tri[2])
        c == Row(wv, tri[3])
        e1 == <<PSub(b[1], a[1]), PSub(b[2], a[2]), PSub(b[3], a[3])>>
        e2 == <<PSub(c[1], a[1]), PSub(c[2], a[2]), PSub(c[3], a[3])>>
    IN  PAdd(PAdd(PMul(PCrossTerm(e1[2], e2[3], e1[3], e2[2]), a[1]),
                  PMul(PCrossTerm(e1[3], e2[1], e1[1], e2[3]), a[2])),
             PMul(PCrossTerm(e1[1], e2[2], e1[2], e2[1]), a[3]))

(***************************************************************************)
(* C1: tessellate on the dome: after k passes in total the mesh has        *)
(* 20 * 4^k faces and 12 + (sum of the undirected edge counts of the mesh  *)
(* at each pass) = 10 * 4^k + 2 vertices, and no call raised.              *)
(***************************************************************************)
C1_DomeCounts ==
    dome => /\ raised = "none"
            /\ Len(f) = 20 * 4^level
            /\ Len(v) = 12 + edgeSum
            /\ Len(v) = 10 * 4^level + 2

C1_Witness ==
    /\ dome /\ call.op = "tessellate" /\ call.k = 2 /\ level = 2
    /\ Len(f) = 320 /\ Len(v) = 162

OnGrid_ForceCcw ==
    call.op = "force_ccw" =>
        /\ v = pre.v
        /\ Len(f) = Len(pre.f)
        /\ \A t \in DOMAIN f :
              /\ DirAt(pre.v, pre.f[t], 1) < 0
                    => f[t] = <<pre.f[t][2], pre.f[t][1], pre.f[t][3]>>
              /\ DirAt(pre.v, pre.f[t], 1) >= 0 => f[t] = pre.f[t]
              /\ \A c \in 1..3 : DirAt(v, f[t], c) >= 0

OnGrid_ForceCcwSeen ==
    /\ call.op = "force_ccw"
    /\ \E t \in DOMAIN f : DirAt(pre.v, pre.f[t], 1) < 0 /\ f[t] # pre.f[t]
    /\ \E t \in DOMAIN f : DirAt(pre.v, pre.f[t], 1) = 0 /\ f[t] = pre.f[t]

\* On the rows of w taken from Pool (SpecFloat), the float64 computation of
\* dir is the exact integer computation of Dir, whatever the order.
OnGrid_DirIsExact ==
    \A t \in DOMAIN f :
        (\A c \in 1..3 : f[t][c] >= 3) =>
            \A ord \in Orders :
                DirF(w, f[t], ord)
                    = Lift(Dir(Pool, <<f[t][1] - 3, f[t][2] - 3, f[t][3] - 3>>))

(***************************************************************************)
(* C3: after force_ccw every face of the mesh has d >= 0.  Read in favour  *)
(* of the claim: d is the exact value of ((b - a) x (c - a)) . a, or the   *)
(* value float64 computes for it in some order of the sum.                 *)
(***************************************************************************)
C3_AsStated ==
    call.op = "force_ccw" =>
        \A t \in DOMAIN f :
            \/ ~Neg(ExactDir(w, f[t]))
            \/ \E ord \in Orders : ~Neg(DirF(w, f[t], ord))

(***************************************************************************)
(* C4: on the dome, under any sequence of tessellate and force_ccw calls,  *)
(* every face index is in [0, |v|) and a call keeps every vertex it found: *)
(* the vertex array before the call is a prefix of the one after it, and   *)
(* a pass gives the edges of its mesh pairwise different new indices.      *)
(***************************************************************************)
C4_IndicesAndAppendOnly ==
    dome => /\ InRange(v, f)
            /\ Len(pre.v) <= Len(v)
            /\ \A i \in DOMAIN pre.v : v[i] = pre.v[i]
            /\ (call.op = "tessellate" /\ call.done >= 1) =>
                  /\ SharedMidpoints(pre.pf, f)
                  /\ Cardinality({MidOf(f, p) : p \in Slots(pre.pf)}) = NumEdges(pre.pf)
                  /\ \A p \in Slots(pre.pf) : MidOf(f, p) >= Len(pre.pv)

C4_Witness ==
    /\ dome /\ call.op = "tessellate" /\ call.done = 1
    /\ Len(v) > Len(pre.v) /\ Len(pre.v) > 12

(***************************************************************************)
(* C5: the icosahedron of GeodesicDome() has 12 vertices and 20 faces with *)
(* indices in 0..11, 30 undirected edges each in exactly two faces, and    *)
(* every vertex is a corner of exactly 5 faces.                            *)
(***************************************************************************)
C5_Icosahedron ==
    (dome /\ call.op = "init") =>
        /\ Len(v) = 12
        /\ Len(f) = 20
        /\ \A t \in DOMAIN f : \A c \in 1..3 : f[t][c] \in 0..11
        /\ EveryEdgeInTwoFaces(f)
        /\ NumEdges(f) = 30
        /\ \A i \in 0..11 :
              Cardinality({t \in DOMAIN f : \E c \in 1..3 : f[t][c] = i}) = 5

C5_Witness ==
    /\ dome /\ call.op = "init" /\ level = 0
    /\ Cardinality({t \in DOMAIN f : \E c \in 1..3 : f[t][c] = 0}) = 5
    /\ Cardinality({t \in DOMAIN f : \E c \in 1..3 : f[t][c] = 11}) = 5

(***************************************************************************)
(* C6: save_as_ply writes the 9 header lines with the counts of the mesh,  *)
(* then one line per vertex in index order, then one line "3 i j k" per    *)
(* face in face order, and nothing else.                                   *)
(***************************************************************************)
C6_PlyFile ==
    call.op = "save_as_ply" =>
        /\ Len(ply) = 9 + Len(v) + Len(f)
        /\ ply[1] = [text |-> "ply"]
        /\ ply[2] = [text |-> "format ascii 1.0"]
        /\ ply[3] = [text |-> "element vertex", n |-> Len(v)]
        /\ ply[4] = [text |-> "property float x"]
        /\ ply[5] = [text |-> "property float y"]
        /\ ply[6] = [text |-> "property float z"]
        /\ ply[7] = [text |-> "element face", n |-> Len(f)]
        /\ ply[8] = [text |-> "property list uchar int vertex_indices"]
        /\ ply[9] = [text |-> "end_header"]
        /\ \A i \in DOMAIN v :
              ply[9 + i] = [x |-> v[i][1], y |-> v[i][2], z |-> v[i][3]]
        /\ \A t \in DOMAIN f :
              ply[9 + Len(v) + t] = [n |-> 3, i |-> f[t][1], j |-> f[t][2], k |-> f[t][3]]
        /\ ply[3].n = Cardinality({q \in DOMAIN ply : DOMAIN ply[q] = {"x", "y", "z"}})
        /\ ply[7].n = Cardinality({q \in DOMAIN ply : DOMAIN ply[q] = {"n", "i", "j", "k"}})

C6_Witness ==
    /\ call.op = "save_as_ply" /\ dome /\ level = 1
    /\ Len(ply) = 9 + 42 + 80

(***************************************************************************)
(* C7 as stated: tessellate on a mesh with an undirected edge that belongs *)
(* to a number of faces other than 2 raises GeometryError.                 *)
(***************************************************************************)
C7_AsStated ==
    (call.op = "tessellate" /\ call.k >= 1 /\ ~EveryEdgeInTwoFaces(pre.f)) =>
        raised = "GeometryError"

(***************************************************************************)
(* C8: fibonacci_sphere(N), N >= 2, returns N pairwise distinct points,    *)
(* the first (0, 0, 1), the last (0, 0, -1), the third component of point  *)
(* i being 1 - 2 i / (N - 1), strictly decreasing in i.                    *)
(***************************************************************************)
C8_FibonacciPoints ==
    pts # << >> =>
        /\ Len(pts) = samples
        /\ \A i, j \in DOMAIN pts : i # j => pts[i] # pts[j]
        /\ pts[1] = <<0, 0, One(samples)>>
        /\ pts[samples] = <<0, 0, -One(samples)>>
        /\ \A i \in DOMAIN pts :
              pts[i][3] * (samples - 1) = One(samples) * ((samples - 1) - 2 * (i - 1))
        /\ \A i \in DOMAIN pts : i > 1 => pts[i][3] < pts[i - 1][3]

C8_Witness ==
    /\ samples = MaxSamples /\ Len(pts) = MaxSamples
    /\ pts[2][1] # 0 /\ pts[2][2] # 0

(***************************************************************************)
(* On the grid (Spec) force_ccw is idempotent.                             *)
(***************************************************************************)
OnGrid_Idempotent ==
    call.op = "force_ccw" => ForceCcwFaces(v, f) = f

OnGrid_IdempotentSeen ==
    /\ call.op = "force_ccw" /\ f # pre.f /\ ForceCcwFaces(v, f) = f

(***************************************************************************)
(* C9: force_ccw is idempotent: after a call, a second call flips no face. *)
(* Read in favour of the claim: in some order of the sum.                  *)
(***************************************************************************)
C9_AsStated ==
    call.op = "force_ccw" => \E ord \in Orders : ForceCcwWide(w, f, ord) = f

(***************************************************************************)
(* C10: a pass replaces every face (a, b, c), in face order, by            *)
(* (a, mab, mca), (b, mbc, mab), (c, mca, mbc), (mab, mbc, mca), where mxy *)
(* is a vertex appended by the pass at the normalized midpoint of x and y; *)
(* and on the dome every directed edge occurs in at most one face and its  *)
(* reverse in exactly one, so that every undirected edge is traversed from *)
(* its lower to its higher index exactly once.                             *)
(***************************************************************************)
FourFaces(pv, pf, vv, ff) ==
    /\ Len(ff) = 4 * Len(pf)
    /\ \A t \in DOMAIN pf :
          \E a \in {pf[t][1]} : \E b \in {pf[t][2]} : \E c \in {pf[t][3]} :
          \E mab \in {ff[4 * t - 3][2]} : \E mbc \in {ff[4 * t - 2][2]} :
          \E mca \in {ff[4 * t - 1][2]} :
             /\ ff[4 * t - 3] = <<a, mab, mca>>
             /\ ff[4 * t - 2] = <<b, mbc, mab>>
             /\ ff[4 * t - 1] = <<c, mca, mbc>>
             /\ ff[4 * t] = <<mab, mbc, mca>>
             /\ \A m \in {mab, mbc, mca} : m >= Len(pv) /\ m < Len(vv)
             /\ Row(vv, mab) = Snap(<<newvert(Row(pv, a), Row(pv, b))>>)[1]
             /\ Row(vv, mbc) = Snap(<<newvert(Row(pv, b), Row(pv, c))>>)[1]
             /\ Row(vv, mca) = Snap(<<newvert(Row(pv, c), Row(pv, a))>>)[1]

C10_FourFacesAndWinding ==
    /\ (call.op = "tessellate" /\ call.done >= 1) => FourFaces(pre.pv, pre.pf, v, f)
    /\ dome => /\ ConsistentlyWound(f)
               /\ Len(UpSlots(f, 0, 3 * Len(f) - 1)) = NumEdges(f)

C10_Witness ==
    /\ dome /\ call.op = "tessellate" /\ call.done = 2 /\ level = 2
    /\ ConsistentlyWound(f)

====
